---- MODULE Spec2Model ----
(***************************************************************************)
(* A model of pdf-writer's text module (src/src/text.rs): the TextStream   *)
(* content-stream builder, the font object writers (Type1Font, Type0Font,  *)
(* CIDFont, Widths, FontDescriptor), FontFlags, SystemInfo and write_cmap. *)
(*                                                                         *)
(* Byte buffers (Vec<u8>) are TLA+ strings: push appends with \o, and      *)
(* SubSeq(s, i, i) reads byte i.  The PdfWriter's object output is kept at *)
(* the level of the lexical grammar: a sequence of tokens ("<<", ">>",     *)
(* "[", "]", "/Name", "5 0 R", "12", "(Adobe)").                           *)
(* f32 values are modelled as fixed-point numbers in thousandths           *)
(* (12000 is 12.0, 1500 is 1.5, -250 is -0.25).                            *)
(***************************************************************************)
EXTENDS Integers, Sequences, FiniteSets, TLC

VARIABLES
    ts_buf,      \* TextStream.buf
    ts_calls,    \* history: the operator calls chained on TextStream::new()
    ts_ended,    \* TRUE once end() has consumed the builder
    ts_result,   \* the Vec<u8> returned by end() ("" before)
    w,           \* the PdfWriter: buf (tokens of the object being written),
                 \* stack (open slots and containers, innermost last),
                 \* registered (references registered with the sink, in order),
                 \* payload (raw bytes of the stream being registered)
    obj,         \* the object writer the caller holds or held last
    widths_open, \* TRUE while a Widths writer borrows the CIDFont
    calls,       \* history: the calls made on the current object writer
    nextRef      \* the reference allocator's counter

tsVars == <<ts_buf, ts_calls, ts_ended, ts_result>>
wVars == <<w, obj, widths_open, calls, nextRef>>
vars == <<ts_buf, ts_calls, ts_ended, ts_result, w, obj, widths_open, calls, nextRef>>

-----------------------------------------------------------------------------
(* Bounds and input domains                                                *)

MaxOps == 3

FontNames == {"F1", "F2"}
Sizes == {12000, 1500}
Coords == {0, -250}
Matrices == { <<1000, 0, 0, 1000, 0, 0>>, <<1500, 0, 0, -250, 12000, 0>> }
Texts == { <<>>, <<72, 105>>, <<255>>, <<0, 171>> }

-----------------------------------------------------------------------------
(* Primitive formatter (BufExt: push, push_bytes, push_int, push_val,      *)
(* push_hex, push_hex_u16)                                                 *)

DecDigits == <<"0", "1", "2", "3", "4", "5", "6", "7", "8", "9">>

HexDigits ==
    <<"0", "1", "2", "3", "4", "5", "6", "7", "8", "9",
      "A", "B", "C", "D", "E", "F">>

RECURSIVE NatStr(_)
NatStr(n) ==
    IF n < 10 THEN DecDigits[n + 1]
    ELSE NatStr(n \div 10) \o DecDigits[(n % 10) + 1]

\* decimal ASCII, no leading zeros, optional leading '-'
IntStr(i) == IF i < 0 THEN "-" \o NatStr(-i) ELSE NatStr(i)

\* the fractional part (1..999 thousandths) with trailing zeros trimmed
FracStr(fp) ==
    LET d1 == DecDigits[(fp \div 100) + 1]
        d2 == DecDigits[((fp \div 10) % 10) + 1]
        d3 == DecDigits[(fp % 10) + 1]
    IN  IF fp % 10 # 0 THEN d1 \o d2 \o d3
        ELSE IF fp % 100 # 0 THEN d1 \o d2
        ELSE d1

\* decimal notation only; trailing zeros and an unnecessary decimal point
\* are trimmed
FloatStr(m) ==
    LET a == IF m < 0 THEN -m ELSE m
    IN  (IF m < 0 THEN "-" ELSE "")
        \o NatStr(a \div 1000)
        \o (IF a % 1000 = 0 THEN "" ELSE "." \o FracStr(a % 1000))

NameStr(n) == "/" \o n

HexByteStr(b) == HexDigits[(b \div 16) + 1] \o HexDigits[(b % 16) + 1]

HexU16Str(v) == HexByteStr(v \div 256) \o HexByteStr(v % 256)

push(buf, c) == buf \o c
push_bytes(buf, s) == buf \o s
push_int(buf, i) == buf \o IntStr(i)
push_val_i32(buf, i) == buf \o IntStr(i)
push_val_f32(buf, f) == buf \o FloatStr(f)
push_val_name(buf, n) == buf \o NameStr(n)
push_hex(buf, b) == buf \o HexByteStr(b)
push_hex_u16(buf, v) == buf \o HexU16Str(v)

-----------------------------------------------------------------------------
(* TextStream                                                              *)

TextStream_new == push_bytes("", "BT\n")

tf(buf, font, size) ==
    LET b1 == push_val_name(buf, font)
        b2 == push(b1, " ")
        b3 == push_val_f32(b2, size)
    IN  push_bytes(b3, " Tf\n")

\* mutant of td: the operator written at the start of the buffer
td_AtFront(buf, x, y) ==
    LET b1 == push_val_f32("", x)
        b2 == push(b1, " ")
        b3 == push_val_f32(b2, y)
    IN  push_bytes(b3, " Td\n") \o buf

td(buf, x, y) ==
    LET b1 == push_val_f32(buf, x)
        b2 == push(b1, " ")
        b3 == push_val_f32(b2, y)
    IN  push_bytes(b3, " Td\n")

tm(buf, a, b, c, d, e, f) ==
    LET b1 == push(push_val_f32(buf, a), " ")
        b2 == push(push_val_f32(b1, b), " ")
        b3 == push(push_val_f32(b2, c), " ")
        b4 == push(push_val_f32(b3, d), " ")
        b5 == push(push_val_f32(b4, e), " ")
        b6 == push_val_f32(b5, f)
    IN  push_bytes(b6, " Tm\n")

\* mutant of the loop: a space written after each byte's digits
RECURSIVE tj_bytes_Spaced(_, _)
tj_bytes_Spaced(buf, text) ==
    IF text = <<>> THEN buf
    ELSE tj_bytes_Spaced(push(push_hex(buf, Head(text)), " "), Tail(text))

\* the loop `for &byte in text { self.buf.push_hex(byte) }`
RECURSIVE tj_bytes(_, _)
tj_bytes(buf, text) ==
    IF text = <<>> THEN buf
    ELSE tj_bytes(push_hex(buf, Head(text)), Tail(text))

tj(buf, text) ==
    LET b1 == push(buf, "<")
        b2 == tj_bytes(b1, text)
    IN  push_bytes(b2, "> Tj\n")

\* mutant of end: the terminator written as a line, like the operators
end_TrailingNewline(buf) == push_bytes(buf, "ET\n")

end(buf) == push_bytes(buf, "ET")

TsInit ==
    /\ ts_buf = TextStream_new
    /\ ts_calls = <<>>
    /\ ts_ended = FALSE
    /\ ts_result = ""

TsOpen == ~ts_ended /\ Len(ts_calls) < MaxOps

Tf ==
    /\ TsOpen
    /\ \E font \in FontNames, size \in Sizes :
        /\ ts_buf' = tf(ts_buf, font, size)
        /\ ts_calls' = Append(ts_calls, [op |-> "tf", font |-> font, size |-> size])
    /\ UNCHANGED <<ts_ended, ts_result>>
    /\ UNCHANGED wVars

Td ==
    /\ TsOpen
    /\ \E x \in Coords, y \in Coords :
        /\ ts_buf' = td(ts_buf, x, y)
        /\ ts_calls' = Append(ts_calls, [op |-> "td", x |-> x, y |-> y])
    /\ UNCHANGED <<ts_ended, ts_result>>
    /\ UNCHANGED wVars

Tm ==
    /\ TsOpen
    /\ \E m \in Matrices :
        /\ ts_buf' = tm(ts_buf, m[1], m[2], m[3], m[4], m[5], m[6])
        /\ ts_calls' = Append(ts_calls, [op |-> "tm", m |-> m])
    /\ UNCHANGED <<ts_ended, ts_result>>
    /\ UNCHANGED wVars

Tj ==
    /\ TsOpen
    /\ \E text \in Texts :
        /\ ts_buf' = tj(ts_buf, text)
        /\ ts_calls' = Append(ts_calls, [op |-> "tj", text |-> text])
    /\ UNCHANGED <<ts_ended, ts_result>>
    /\ UNCHANGED wVars

\* end(mut self) -> Vec<u8>: the builder is moved out of, the buffer returned
End ==
    /\ ~ts_ended
    /\ ts_buf' = end(ts_buf)
    /\ ts_result' = end(ts_buf)
    /\ ts_ended' = TRUE
    /\ UNCHANGED ts_calls
    /\ UNCHANGED wVars

TsNext == Tf \/ Td \/ Tm \/ Tj \/ End

-----------------------------------------------------------------------------
(* Objects and their lexical form                                          *)

Name(n) == [t |-> "name", v |-> n]
I32(i) == [t |-> "i32", v |-> i]
F32(f) == [t |-> "f32", v |-> f]
Ref(id) == [t |-> "ref", v |-> id]
Str(s) == [t |-> "str", v |-> s]
Rect(r) == [t |-> "rect", v |-> r]

StrStr(s) == "(" \o s \o ")"
RefStr(id) == IntStr(id) \o " 0 R"

\* Object::write: the tokens of a scalar value
ObjToks(o) ==
    CASE o.t = "name" -> <<NameStr(o.v)>>
      [] o.t = "i32" -> <<IntStr(o.v)>>
      [] o.t = "f32" -> <<FloatStr(o.v)>>
      [] o.t = "ref" -> <<RefStr(o.v)>>
      [] o.t = "str" -> <<StrStr(o.v)>>
      [] o.t = "rect" ->
            <<"[", FloatStr(o.v[1]), FloatStr(o.v[2]),
              FloatStr(o.v[3]), FloatStr(o.v[4]), "]">>

push_val_str(buf, s) == buf \o StrStr(s)

-----------------------------------------------------------------------------
(* Slot/guard protocol and container builders (Any, Dict, Array)           *)
(*                                                                         *)
(* w.stack holds the open slots and containers, innermost last; only the   *)
(* innermost can be written (the exclusive borrow of the parent).  w.buf   *)
(* holds the tokens of the object being written: begin_indirect and stream *)
(* start a fresh segment, what was written before is never touched again.  *)

NoGuard == [g |-> "none", id |-> 0]
IndirectGuard(id) == [g |-> "indirect", id |-> id]
StreamGuard(id) == [g |-> "stream", id |-> id]

Top(w0) == w0.stack[Len(w0.stack)]
Pop(w0) == [w0 EXCEPT !.stack = SubSeq(@, 1, Len(@) - 1)]
PushFrame(w0, kind, guard) ==
    [w0 EXCEPT !.stack = Append(@, [kind |-> kind, guard |-> guard])]
Emit(w0, toks) == [w0 EXCEPT !.buf = @ \o toks]

\* Guard::finish: an indirect or stream object is registered with the sink
\* when its slot closes
Guard_finish(w0, guard) ==
    IF guard.g = "none" THEN w0
    ELSE [w0 EXCEPT !.registered = Append(@, guard.id)]

begin_indirect(w0, id) ==
    PushFrame([w0 EXCEPT !.buf = <<>>, !.payload = ""], "any", IndirectGuard(id))

\* Any::obj: a scalar write closes the slot at once
Any_obj(w0, o) == Guard_finish(Emit(Pop(w0), ObjToks(o)), Top(w0).guard)

\* Any::dict, Any::array: the opening delimiter is written eagerly
Any_dict(w0) == PushFrame(Emit(Pop(w0), <<"<<">>), "dict", Top(w0).guard)
Any_array(w0) == PushFrame(Emit(Pop(w0), <<"[">>), "array", Top(w0).guard)

Dict_key(w0, key) == PushFrame(Emit(w0, ObjToks(key)), "any", NoGuard)
Dict_pair(w0, key, o) == Any_obj(Dict_key(w0, key), o)

Array_any(w0) == PushFrame(w0, "any", NoGuard)
Array_item(w0, o) == Any_obj(Array_any(w0), o)

\* TypedArray::items
RECURSIVE Array_items(_, _)
Array_items(w0, os) ==
    IF os = <<>> THEN w0
    ELSE Array_items(Array_item(w0, Head(os)), Tail(os))

\* Drop for Dict and Array: the closing delimiter, then the guard
Container_drop(w0) ==
    Guard_finish(
        Emit(Pop(w0), IF Top(w0).kind = "dict" THEN <<">>">> ELSE <<"]">>),
        Top(w0).guard)

\* PdfWriter::stream: the payload and the metadata dict of a stream object
stream(w0, id, data) ==
    PushFrame([w0 EXCEPT !.buf = <<"<<">>, !.payload = data],
              "dict", StreamGuard(id))

-----------------------------------------------------------------------------
(* Font object writers                                                     *)

Type1Font_start(w0) ==
    LET d0 == Any_dict(w0)
        d1 == Dict_pair(d0, Name("Type"), Name("Font"))
    IN  Dict_pair(d1, Name("Subtype"), Name("Type1"))

Type1Font_base_font(w0, name) == Dict_pair(w0, Name("BaseFont"), Name(name))

Type0Font_start(w0) ==
    LET d0 == Any_dict(w0)
        d1 == Dict_pair(d0, Name("Type"), Name("Font"))
    IN  Dict_pair(d1, Name("Subtype"), Name("Type0"))

Type0Font_base_font(w0, name) == Dict_pair(w0, Name("BaseFont"), Name(name))

Type0Font_encoding_predefined(w0, encoding) ==
    Dict_pair(w0, Name("Encoding"), Name(encoding))

\* mutant of encoding_cmap: nothing written when /Encoding is already there
Type0Font_encoding_cmap_Once(w0, cmap) ==
    IF \E i \in 1..Len(w0.buf) : w0.buf[i] = "/Encoding" THEN w0
    ELSE Dict_pair(w0, Name("Encoding"), Ref(cmap))

Type0Font_encoding_cmap(w0, cmap) == Dict_pair(w0, Name("Encoding"), Ref(cmap))

\* mutant of descendant_font: the Array is never dropped (kept or forgotten)
Type0Font_descendant_font_Unclosed(w0, cid_font) ==
    Array_item(Any_array(Dict_key(w0, Name("DescendantFonts"))), Ref(cid_font))

\* mutant of descendant_font: the reference written as the value itself
Type0Font_descendant_font_NoArray(w0, cid_font) ==
    Dict_pair(w0, Name("DescendantFonts"), Ref(cid_font))

\* self.dict.key(..).array().item(cid_font); the temporary Array is dropped
\* at the end of the statement
Type0Font_descendant_font(w0, cid_font) ==
    LET a0 == Any_array(Dict_key(w0, Name("DescendantFonts")))
        a1 == Array_item(a0, Ref(cid_font))
    IN  Container_drop(a1)

Type0Font_to_unicode(w0, cmap) == Dict_pair(w0, Name("ToUnicode"), Ref(cmap))

\* mutant of CIDFontType::name: both arms give the same name
CIDFontType_name_SameArm(t) ==
    CASE t = "Type0" -> "CIDFontType0"
      [] t = "Type2" -> "CIDFontType0"

CIDFontType_name(t) ==
    CASE t = "Type0" -> "CIDFontType0"
      [] t = "Type2" -> "CIDFontType2"

CIDFont_start(w0, subtype) ==
    LET d0 == Any_dict(w0)
        d1 == Dict_pair(d0, Name("Type"), Name("Font"))
    IN  Dict_pair(d1, Name("Subtype"), Name(CIDFontType_name(subtype)))

CIDFont_base_font(w0, name) == Dict_pair(w0, Name("BaseFont"), Name(name))

\* any.dict().pair(..).pair(..).pair(..); the temporary Dict is dropped at
\* the end of the statement
SystemInfo_write(w0, info) ==
    LET d0 == Any_dict(w0)
        d1 == Dict_pair(d0, Name("Registry"), Str(info.registry))
        d2 == Dict_pair(d1, Name("Ordering"), Str(info.ordering))
        d3 == Dict_pair(d2, Name("Supplement"), I32(info.supplement))
    IN  Container_drop(d3)

\* mutant of system_info: the three entries written into the font dict
CIDFont_system_info_Flat(w0, info) ==
    LET d1 == Dict_pair(w0, Name("Registry"), Str(info.registry))
        d2 == Dict_pair(d1, Name("Ordering"), Str(info.ordering))
    IN  Dict_pair(d2, Name("Supplement"), I32(info.supplement))

CIDFont_system_info(w0, info) ==
    SystemInfo_write(Dict_key(w0, Name("CIDSystemInfo")), info)

CIDFont_font_descriptor(w0, cid_font) ==
    Dict_pair(w0, Name("FontDescriptor"), Ref(cid_font))

Widths_start(w0) == Any_array(w0)

CIDFont_widths(w0) == Widths_start(Dict_key(w0, Name("W")))

\* mutant of individual: the widths written as items of the outer array
Widths_individual_NoNest(w0, start, widths) ==
    Array_items(Array_item(w0, I32(start)),
                [i \in 1..Len(widths) |-> F32(widths[i])])

\* self.array.any().array().typed().items(widths); the temporary typed
\* array is dropped at the end of the statement
Widths_individual(w0, start, widths) ==
    LET a1 == Array_item(w0, I32(start))
        n0 == Any_array(Array_any(a1))
        n1 == Array_items(n0, [i \in 1..Len(widths) |-> F32(widths[i])])
    IN  Container_drop(n1)

Widths_same(w0, first, last, width) ==
    LET a1 == Array_item(w0, I32(first))
        a2 == Array_item(a1, I32(last))
    IN  Array_item(a2, F32(width))


FontDescriptor_start(w0) ==
    Dict_pair(Any_dict(w0), Name("Type"), Name("FontDescriptor"))

\* a u32 is the set of its one bits (positions 0..31); 1 << k
Shl(k) == {k}

\* mutant of FontFlags: FORCE_BOLD on the top bit (1 << 31 for 1 << 18)
FontFlags_TopBit ==
    [ FIXED_PITCH |-> Shl(0),
      SERIF |-> Shl(1),
      SYMBOLIC |-> Shl(2),
      SCRIPT |-> Shl(3),
      NON_SYMBOLIC |-> Shl(5),
      ITALIC |-> Shl(6),
      ALL_CAP |-> Shl(16),
      SMALL_CAP |-> Shl(17),
      FORCE_BOLD |-> Shl(31) ]

\* mutant of FontFlags: ALL_CAP on the bit of ITALIC (1 << 6 for 1 << 16)
FontFlags_SharedBit ==
    [ FIXED_PITCH |-> Shl(0),
      SERIF |-> Shl(1),
      SYMBOLIC |-> Shl(2),
      SCRIPT |-> Shl(3),
      NON_SYMBOLIC |-> Shl(5),
      ITALIC |-> Shl(6),
      ALL_CAP |-> Shl(6),
      SMALL_CAP |-> Shl(17),
      FORCE_BOLD |-> Shl(18) ]

\* bitflags! { pub struct FontFlags: u32 { ... } }
FontFlags ==
    [ FIXED_PITCH |-> Shl(0),
      SERIF |-> Shl(1),
      SYMBOLIC |-> Shl(2),
      SCRIPT |-> Shl(3),
      NON_SYMBOLIC |-> Shl(5),
      ITALIC |-> Shl(6),
      ALL_CAP |-> Shl(16),
      SMALL_CAP |-> Shl(17),
      FORCE_BOLD |-> Shl(18) ]

\* mutant of bits: NON_SYMBOLIC is left out of a set that holds SYMBOLIC
FontFlags_bits_Exclusive(flags) ==
    UNION { FontFlags[f] :
              f \in IF "SYMBOLIC" \in flags THEN flags \ {"NON_SYMBOLIC"} ELSE flags }

\* FontFlags::bits of a set of flags: their values OR-combined
FontFlags_bits(flags) == UNION { FontFlags[f] : f \in flags }

RECURSIVE SumPow2(_)
SumPow2(ks) ==
    IF ks = {} THEN 0
    ELSE LET k == CHOOSE x \in ks : TRUE
         IN  (2 ^ k) + SumPow2(ks \ {k})

\* `as i32` on a u32: bit 31 is the sign bit
AsI32(u) ==
    IF 31 \in u THEN SumPow2(u \ {31}) - (2 ^ 30) - (2 ^ 30)
    ELSE SumPow2(u)

FontDescriptor_font_name(w0, name) == Dict_pair(w0, Name("FontName"), Name(name))

FontDescriptor_font_flags(w0, flags) ==
    Dict_pair(w0, Name("Flags"), I32(AsI32(FontFlags_bits(flags))))

FontDescriptor_font_bbox(w0, bbox) == Dict_pair(w0, Name("FontBBox"), Rect(bbox))

FontDescriptor_italic_angle(w0, angle) ==
    Dict_pair(w0, Name("ItalicAngle"), F32(angle))

FontDescriptor_ascent(w0, ascent) == Dict_pair(w0, Name("Ascent"), F32(ascent))

FontDescriptor_descent(w0, descent) ==
    Dict_pair(w0, Name("Descent"), F32(descent))

FontDescriptor_cap_height(w0, cap_height) ==
    Dict_pair(w0, Name("CapHeight"), F32(cap_height))

FontDescriptor_stem_v(w0, stem_v) == Dict_pair(w0, Name("StemV"), F32(stem_v))

FontDescriptor_font_file2(w0, true_type_stream) ==
    Dict_pair(w0, Name("FontFile2"), Ref(true_type_stream))

-----------------------------------------------------------------------------
(* write_cmap.  Its buffer is only appended to, so the payload is the      *)
(* concatenation of the sections, each built by the pushes of the source.  *)

\* mutant of encode_utf16: the scalar truncated to one code unit (c as u16)
encode_utf16_Truncated(c) == <<c % 65536>>

\* char::encode_utf16: one code unit below U+10000, a surrogate pair above
encode_utf16(c) ==
    IF c < 65536 THEN <<c>>
    ELSE <<55296 + ((c - 65536) \div 1024), 56320 + ((c - 65536) % 1024)>>

RECURSIVE cmap_parts(_, _)
cmap_parts(buf, utf16) ==
    IF utf16 = <<>> THEN buf
    ELSE cmap_parts(push_hex_u16(buf, Head(utf16)), Tail(utf16))

\* the loop `for (cid, c) in mapping { ... }`
RECURSIVE cmap_mappings(_, _)
cmap_mappings(buf, items) ==
    IF items = <<>> THEN buf
    ELSE LET cid == Head(items)[1]
             c == Head(items)[2]
             b1 == push(buf, "<")
             b2 == push_hex_u16(b1, cid)
             b3 == push_bytes(b2, "> <")
             b4 == cmap_parts(b3, encode_utf16(c))
             b5 == push_bytes(b4, ">\n")
         IN  cmap_mappings(b5, Tail(items))

cmap_static_header ==
    LET b1 == push_bytes("", "%!PS-Adobe-3.0 Resource-CMap\n")
        b2 == push_bytes(b1, "%%DocumentNeededResources: procset CIDInit\n")
    IN  push_bytes(b2, "%%IncludeResource: procset CIDInit\n")

cmap_dynamic_header(name, info) ==
    LET b1 == push_bytes("", "%%BeginResource: CMap ")
        b2 == push(push_bytes(b1, name), "\n")
        b3 == push_bytes(b2, "%%Title: (")
        b4 == push(push_bytes(b3, name), " ")
        b5 == push(push_bytes(b4, info.registry), " ")
        b6 == push(push_bytes(b5, info.ordering), " ")
        b7 == push_int(b6, info.supplement)
        b8 == push_bytes(b7, ")\n")
        b9 == push_bytes(b8, "%%Version: 1\n")
    IN  push_bytes(b9, "%%EndComments\n")

cmap_general_body(name, info) ==
    LET b1 == push_bytes("", "/CIDInit /ProcSet findresource begin\n")
        b2 == push_bytes(b1, "9 dict begin\n")
        b3 == push_bytes(b2, "begincmap\n")
        b4 == push_bytes(b3, "/CIDSystemInfo 3 dict dup begin\n")
        b5 == push_bytes(b4, "    /Registry ")
        b6 == push_bytes(push_val_str(b5, info.registry), " def\n")
        b7 == push_bytes(b6, "    /Ordering ")
        b8 == push_bytes(push_val_str(b7, info.ordering), " def\n")
        b9 == push_bytes(b8, "    /Supplement ")
        b10 == push_bytes(push_val_i32(b9, info.supplement), " def\n")
        b11 == push_bytes(b10, "end def\n")
        b12 == push_bytes(b11, "/CMapName ")
        b13 == push_bytes(push_val_name(b12, name), " def\n")
        b14 == push_bytes(b13, "/CMapVersion 1 def\n")
    IN  push_bytes(b14, "/CMapType 0 def\n")

cmap_codespace ==
    LET b1 == push_bytes("", "1 begincodespacerange\n")
        b2 == push_bytes(b1, "<0000> <ffff>\n")
    IN  push_bytes(b2, "endcodespacerange\n")

\* mutant of the mappings section: the count written as a fixed 1, as on the
\* codespace range line
cmap_bfchar_FixedCount(mapping) ==
    LET b1 == push_int("", 1)
        b2 == push_bytes(b1, " beginbfchar\n")
        b3 == cmap_mappings(b2, mapping.items)
    IN  push_bytes(b3, "endbfchar\n")

\* mutant of the mappings section: the count taken from the pairs yielded
cmap_bfchar_Recounted(mapping) ==
    LET b1 == push_int("", Len(mapping.items))
        b2 == push_bytes(b1, " beginbfchar\n")
        b3 == cmap_mappings(b2, mapping.items)
    IN  push_bytes(b3, "endbfchar\n")

\* mapping.len is the iterator's declared length, mapping.items what it yields
cmap_bfchar(mapping) ==
    LET b1 == push_int("", mapping.len)
        b2 == push_bytes(b1, " beginbfchar\n")
        b3 == cmap_mappings(b2, mapping.items)
    IN  push_bytes(b3, "endbfchar\n")

\* mutant of the end of body: one `end` for the two dicts left open
cmap_end_of_body_OneEnd ==
    LET b1 == push_bytes("", "endcmap\n")
        b2 == push_bytes(b1, "CMapName currentdict /CMap defineresource pop\n")
        b3 == push_bytes(b2, "end\n")
        b5 == push_bytes(b3, "%%EndResource\n")
    IN  push_bytes(b5, "%%EOF")

cmap_end_of_body ==
    LET b1 == push_bytes("", "endcmap\n")
        b2 == push_bytes(b1, "CMapName currentdict /CMap defineresource pop\n")
        b3 == push_bytes(b2, "end\n")
        b4 == push_bytes(b3, "end\n")
        b5 == push_bytes(b4, "%%EndResource\n")
    IN  push_bytes(b5, "%%EOF")

\* the bytes of `buf` in the order they are pushed
cmap_payload(name, info, mapping) ==
    cmap_static_header
        \o cmap_dynamic_header(name, info)
        \o cmap_general_body(name, info)
        \o cmap_codespace
        \o cmap_bfchar(mapping)
        \o cmap_end_of_body

\* mutant of write_cmap: the metadata dict without its CMapName
write_cmap_NoName(w0, id, name, info, mapping) ==
    LET d0 == stream(w0, id, cmap_payload(name, info, mapping))
        d1 == Dict_pair(d0, Name("Type"), Name("CMap"))
        d3 == SystemInfo_write(Dict_key(d1, Name("CIDSystemInfo")), info)
    IN  Container_drop(d3)

\* the local `dict` is dropped when write_cmap returns
write_cmap(w0, id, name, info, mapping) ==
    LET d0 == stream(w0, id, cmap_payload(name, info, mapping))
        d1 == Dict_pair(d0, Name("Type"), Name("CMap"))
        d2 == Dict_pair(d1, Name("CMapName"), Name(name))
        d3 == SystemInfo_write(Dict_key(d2, Name("CIDSystemInfo")), info)
    IN  Container_drop(d3)

-----------------------------------------------------------------------------
(* The document-build session: one object writer at a time on one          *)
(* PdfWriter, each bound to a freshly allocated reference                  *)

MaxCalls == 3
MaxObjs == 2
MaxMap == 2

BaseFonts == {"Arial-Bold", "Helvetica"}
Encodings == {"Identity-H", "Identity-V"}
RefArgs == {5, 7}
CIDFontTypes == {"Type0", "Type2"}
SystemInfos ==
    { [registry |-> "Adobe", ordering |-> "Identity", supplement |-> 0],
      [registry |-> "Adobe", ordering |-> "Japan1", supplement |-> 6] }
SameRuns == { <<10, 12, 500000>>, <<0, 65535, 1500>> }
IndividualRuns == { <<20, <<1000, 2000>>>>, <<1, <<>>>>, <<65535, <<1500>>>> }
FlagSets == { {}, {"SYMBOLIC", "NON_SYMBOLIC"}, {"ITALIC", "ALL_CAP", "FORCE_BOLD"} }
DescriptorNames == {"Arial-Bold"}
FontFiles == {7}
Rects == { <<0, -250000, 1000000, 750000>> }
Angles == {-12500}
Ascents == {750000}
Descents == {-250000}
CapHeights == {700000}
StemVs == {80000}
\* (name, info) arguments of write_cmap
CMapArgs ==
    { [name |-> "Custom",
       info |-> [registry |-> "Adobe", ordering |-> "Identity", supplement |-> 0]],
      [name |-> "Adobe-Japan1-UCS2",
       info |-> [registry |-> "Adobe", ordering |-> "Japan1", supplement |-> 6]] }
\* (code, scalar) pairs: U+FFFF, U+10000, U+1F600
MapPairs == { <<65, 65535>>, <<65535, 65536>>, <<258, 128512>> }
SeqsUpTo(S, n) == UNION { [1..k -> S] : k \in 0..n }
Mappings ==
    { [len |-> n, items |-> s] : n \in 0..MaxMap, s \in SeqsUpTo(MapPairs, MaxMap) }

NoObj == [kind |-> "none", subtype |-> "none", id |-> 0, open |-> FALSE]

WInit ==
    /\ w = [buf |-> <<>>, stack |-> <<>>, registered |-> <<>>, payload |-> ""]
    /\ obj = NoObj
    /\ widths_open = FALSE
    /\ calls = <<>>
    /\ nextRef = 1

\* the PdfWriter is not borrowed by any writer and a reference is left
Idle == ~obj.open /\ nextRef <= MaxObjs

Start(kind, subtype, w1) ==
    /\ Idle
    /\ w' = w1
    /\ obj' = [kind |-> kind, subtype |-> subtype, id |-> nextRef, open |-> TRUE]
    /\ calls' = <<>>
    /\ nextRef' = nextRef + 1
    /\ UNCHANGED widths_open
    /\ UNCHANGED tsVars

\* mutant of Call: the writer usable while a Widths writer borrows it
Call_Unborrowed(kind, op, arg, w1) ==
    /\ obj.open
    /\ obj.kind = kind
    /\ Len(calls) < MaxCalls
    /\ w' = w1
    /\ calls' = Append(calls, [op |-> op, arg |-> arg])
    /\ UNCHANGED <<obj, widths_open, nextRef>>
    /\ UNCHANGED tsVars

\* a method of the writer `kind`, which no Widths writer borrows
Call(kind, op, arg, w1) ==
    /\ obj.open
    /\ obj.kind = kind
    /\ ~widths_open
    /\ Len(calls) < MaxCalls
    /\ w' = w1
    /\ calls' = Append(calls, [op |-> op, arg |-> arg])
    /\ UNCHANGED <<obj, widths_open, nextRef>>
    /\ UNCHANGED tsVars

StartType1Font == Start("Type1Font", "none", Type1Font_start(begin_indirect(w, nextRef)))

Type1BaseFont ==
    \E name \in BaseFonts :
        Call("Type1Font", "base_font", name, Type1Font_base_font(w, name))

StartType0Font == Start("Type0Font", "none", Type0Font_start(begin_indirect(w, nextRef)))

Type0BaseFont ==
    \E name \in BaseFonts :
        Call("Type0Font", "base_font", name, Type0Font_base_font(w, name))

Type0EncodingPredefined ==
    \E encoding \in Encodings :
        Call("Type0Font", "encoding_predefined", encoding,
             Type0Font_encoding_predefined(w, encoding))

Type0EncodingCmap ==
    \E cmap \in RefArgs :
        Call("Type0Font", "encoding_cmap", cmap, Type0Font_encoding_cmap(w, cmap))

Type0DescendantFont ==
    \E cid_font \in RefArgs :
        Call("Type0Font", "descendant_font", cid_font,
             Type0Font_descendant_font(w, cid_font))

Type0ToUnicode ==
    \E cmap \in RefArgs :
        Call("Type0Font", "to_unicode", cmap, Type0Font_to_unicode(w, cmap))

StartCIDFont ==
    \E subtype \in CIDFontTypes :
        Start("CIDFont", subtype, CIDFont_start(begin_indirect(w, nextRef), subtype))

CIDBaseFont ==
    \E name \in BaseFonts :
        Call("CIDFont", "base_font", name, CIDFont_base_font(w, name))

CIDSystemInfo ==
    \E info \in SystemInfos :
        Call("CIDFont", "system_info", info, CIDFont_system_info(w, info))

CIDFontDescriptor ==
    \E cid_font \in RefArgs :
        Call("CIDFont", "font_descriptor", cid_font,
             CIDFont_font_descriptor(w, cid_font))

\* widths(&mut self) -> Widths<'_>: the CIDFont stays borrowed until the
\* Widths writer is dropped
CIDWidths ==
    /\ obj.open
    /\ obj.kind = "CIDFont"
    /\ ~widths_open
    /\ Len(calls) < MaxCalls
    /\ w' = CIDFont_widths(w)
    /\ widths_open' = TRUE
    /\ calls' = Append(calls, [op |-> "widths", arg |-> <<>>])
    /\ UNCHANGED <<obj, nextRef>>
    /\ UNCHANGED tsVars

WidthsCall(op, arg, w1) ==
    /\ widths_open
    /\ Len(calls) < MaxCalls
    /\ w' = w1
    /\ calls' = Append(calls, [op |-> op, arg |-> arg])
    /\ UNCHANGED <<obj, widths_open, nextRef>>
    /\ UNCHANGED tsVars

WidthsIndividual ==
    \E r \in IndividualRuns :
        WidthsCall("individual", r, Widths_individual(w, r[1], r[2]))

WidthsSame ==
    \E r \in SameRuns :
        WidthsCall("same", r, Widths_same(w, r[1], r[2], r[3]))

\* the Widths writer goes out of scope: its Array is dropped
WidthsDrop ==
    /\ widths_open
    /\ w' = Container_drop(w)
    /\ widths_open' = FALSE
    /\ UNCHANGED <<obj, calls, nextRef>>
    /\ UNCHANGED tsVars

StartFontDescriptor ==
    Start("FontDescriptor", "none", FontDescriptor_start(begin_indirect(w, nextRef)))

FDFontName ==
    \E name \in DescriptorNames :
        Call("FontDescriptor", "font_name", name, FontDescriptor_font_name(w, name))

FDFontFlags ==
    \E flags \in FlagSets :
        Call("FontDescriptor", "font_flags", flags,
             FontDescriptor_font_flags(w, flags))

\* font_flags as the one call on a descriptor, with any set of flags
FDFontFlagsAny ==
    /\ calls = <<>>
    /\ \E flags \in SUBSET (DOMAIN FontFlags) :
        Call("FontDescriptor", "font_flags", flags,
             FontDescriptor_font_flags(w, flags))

FDFontBBox ==
    \E bbox \in Rects :
        Call("FontDescriptor", "font_bbox", bbox, FontDescriptor_font_bbox(w, bbox))

FDItalicAngle ==
    \E angle \in Angles :
        Call("FontDescriptor", "italic_angle", angle,
             FontDescriptor_italic_angle(w, angle))

FDAscent ==
    \E ascent \in Ascents :
        Call("FontDescriptor", "ascent", ascent, FontDescriptor_ascent(w, ascent))

FDDescent ==
    \E descent \in Descents :
        Call("FontDescriptor", "descent", descent,
             FontDescriptor_descent(w, descent))

FDCapHeight ==
    \E cap_height \in CapHeights :
        Call("FontDescriptor", "cap_height", cap_height,
             FontDescriptor_cap_height(w, cap_height))

FDStemV ==
    \E stem_v \in StemVs :
        Call("FontDescriptor", "stem_v", stem_v, FontDescriptor_stem_v(w, stem_v))

FDFontFile2 ==
    \E true_type_stream \in FontFiles :
        Call("FontDescriptor", "font_file2", true_type_stream,
             FontDescriptor_font_file2(w, true_type_stream))

\* the font object writer goes out of scope: its `dict` field is dropped
DropWriter ==
    /\ obj.open
    /\ ~widths_open
    /\ w' = Container_drop(w)
    /\ obj' = [obj EXCEPT !.open = FALSE]
    /\ UNCHANGED <<widths_open, calls, nextRef>>
    /\ UNCHANGED tsVars

WriteCmap ==
    /\ Idle
    /\ \E a \in CMapArgs, mapping \in Mappings :
        /\ w' = write_cmap(w, nextRef, a.name, a.info, mapping)
        /\ calls' = << [op |-> "write_cmap",
                        arg |-> [name |-> a.name, info |-> a.info,
                                 mapping |-> mapping]] >>
    /\ obj' = [kind |-> "CMap", subtype |-> "none", id |-> nextRef, open |-> FALSE]
    /\ nextRef' = nextRef + 1
    /\ UNCHANGED widths_open
    /\ UNCHANGED tsVars

Next ==
    \/ StartType1Font \/ Type1BaseFont
    \/ StartType0Font \/ Type0BaseFont \/ Type0EncodingPredefined
    \/ Type0EncodingCmap \/ Type0DescendantFont \/ Type0ToUnicode
    \/ StartCIDFont \/ CIDBaseFont \/ CIDSystemInfo \/ CIDFontDescriptor
    \/ CIDWidths \/ WidthsIndividual \/ WidthsSame \/ WidthsDrop
    \/ StartFontDescriptor \/ FDFontName \/ FDFontFlags \/ FDFontBBox
    \/ FDItalicAngle \/ FDAscent \/ FDDescent \/ FDCapHeight \/ FDStemV
    \/ FDFontFile2
    \/ DropWriter

Init == TsInit /\ WInit

\* the font object writers on one PdfWriter
Spec == Init /\ [][Next]_vars

\* font descriptors given one set of flags each
SpecFlags == Init /\ [][StartFontDescriptor \/ FDFontFlagsAny \/ DropWriter]_vars

\* write_cmap calls on one PdfWriter
SpecCMap == Init /\ [][WriteCmap]_vars

\* the TextStream builder
SpecText == Init /\ [][TsNext]_vars

-----------------------------------------------------------------------------
(* C1: end() returns "BT\n", then each operator's encoding in call order   *)
(* (operands separated by single spaces, a space, the keyword, a newline), *)
(* then "ET" without a trailing newline; the two examples of the spec give *)
(* BT\n/F1 12 Tf\n0 0 Td\n<4869> Tj\nET and BT\nET.                        *)

RECURSIVE JoinSp(_)
JoinSp(ss) ==
    IF ss = <<>> THEN ""
    ELSE IF Len(ss) = 1 THEN ss[1]
    ELSE ss[1] \o " " \o JoinSp(Tail(ss))

RECURSIVE HexOf(_)
HexOf(text) ==
    IF text = <<>> THEN "" ELSE HexByteStr(Head(text)) \o HexOf(Tail(text))

Operands(c) ==
    CASE c.op = "tf" -> <<NameStr(c.font), FloatStr(c.size)>>
      [] c.op = "td" -> <<FloatStr(c.x), FloatStr(c.y)>>
      [] c.op = "tm" -> [i \in 1..6 |-> FloatStr(c.m[i])]
      [] c.op = "tj" -> << "<" \o HexOf(c.text) \o ">" >>

Keyword(c) ==
    CASE c.op = "tf" -> "Tf"
      [] c.op = "td" -> "Td"
      [] c.op = "tm" -> "Tm"
      [] c.op = "tj" -> "Tj"

OpLine(c) == JoinSp(Operands(c)) \o " " \o Keyword(c) \o "\n"

RECURSIVE OpLines(_)
OpLines(cs) == IF cs = <<>> THEN "" ELSE OpLine(Head(cs)) \o OpLines(Tail(cs))

ExampleCalls ==
    << [op |-> "tf", font |-> "F1", size |-> 12000],
       [op |-> "td", x |-> 0, y |-> 0],
       [op |-> "tj", text |-> <<72, 105>>] >>

C1_EndYieldsOperatorsInOrder ==
    ts_ended =>
        /\ ts_result = "BT\n" \o OpLines(ts_calls) \o "ET"
        /\ (ts_calls = ExampleCalls
               => ts_result = "BT\n/F1 12 Tf\n0 0 Td\n<4869> Tj\nET")
        /\ (ts_calls = <<>> => ts_result = "BT\nET")

C1_Witness ==
    /\ ts_ended
    /\ ts_calls = ExampleCalls
    /\ ts_result = "BT\n/F1 12 Tf\n0 0 Td\n<4869> Tj\nET"

-----------------------------------------------------------------------------
(* Reading a token buffer back: the entries of the outermost dict          *)

Openers == {"<<", "["}
Closers == {">>", "]"}

CountIn(toks, S, n) == Cardinality({ j \in 1..n : toks[j] \in S })

\* the number of containers open just before token i
DepthBefore(toks, i) ==
    CountIn(toks, Openers, i - 1) - CountIn(toks, Closers, i - 1)

\* the depth before each token, and after the last one
RECURSIVE DepthsFrom(_, _, _)
DepthsFrom(toks, i, d) ==
    IF i > Len(toks) THEN <<d>>
    ELSE <<d>> \o DepthsFrom(toks, i + 1,
                    IF toks[i] \in Openers THEN d + 1
                    ELSE IF toks[i] \in Closers THEN d - 1 ELSE d)

Depths(toks) == DepthsFrom(toks, 1, 0)

\* where the keys and values of the outermost dict start
ItemStartsAt(toks, depths) ==
    { i \in 2..Len(toks) : depths[i] = 1 /\ toks[i] \notin Closers }

ItemStarts(toks) == ItemStartsAt(toks, Depths(toks))

SetMin(S) == CHOOSE x \in S : \A y \in S : x <= y

\* a scalar is one token; a container runs to its closing delimiter, or to
\* the end of the buffer while it is still open
ItemEndAt(toks, depths, i) ==
    IF toks[i] \notin Openers THEN i
    ELSE LET ends == { j \in (i + 1)..Len(toks) : depths[j + 1] = 1 }
         IN  IF ends = {} THEN Len(toks) ELSE SetMin(ends)

ItemEnd(toks, i) == ItemEndAt(toks, Depths(toks), i)

Nth(S, k) == CHOOSE x \in S : Cardinality({ y \in S : y < x }) = k - 1

\* the sorted sequence of a set of numbers
RECURSIVE Sorted(_)
Sorted(S) == IF S = {} THEN <<>> ELSE <<SetMin(S)>> \o Sorted(S \ {SetMin(S)})

TopItems(toks) ==
    LET depths == Depths(toks)
        starts == Sorted(ItemStartsAt(toks, depths))
    IN  [k \in 1..Len(starts) |->
            SubSeq(toks, starts[k], ItemEndAt(toks, depths, starts[k]))]

\* <<key tokens, value tokens>> of each entry, in order
PairUp(items) ==
    [k \in 1..(Len(items) \div 2) |-> <<items[2 * k - 1], items[2 * k]>>]

TopEntries(toks) == PairUp(TopItems(toks))

RECURSIVE Flatten(_)
Flatten(ss) == IF ss = <<>> THEN <<>> ELSE Head(ss) \o Flatten(Tail(ss))

-----------------------------------------------------------------------------
(* C2: a Type0Font with base_font(n), encoding_predefined(e),              *)
(* descendant_font(r) called in that order is, once dropped, the dict      *)
(* /Type /Font /Subtype /Type0 /BaseFont n /Encoding e                     *)
(* /DescendantFonts [r]; in general the entries written by the setters     *)
(* follow the two pre-seeded entries in the order the setters were called. *)

Type0Entry(c) ==
    CASE c.op = "base_font" -> << <<"/BaseFont">>, <<NameStr(c.arg)>> >>
      [] c.op = "encoding_predefined" -> << <<"/Encoding">>, <<NameStr(c.arg)>> >>
      [] c.op = "encoding_cmap" -> << <<"/Encoding">>, <<RefStr(c.arg)>> >>
      [] c.op = "descendant_font" ->
            << <<"/DescendantFonts">>, <<"[", RefStr(c.arg), "]">> >>
      [] c.op = "to_unicode" -> << <<"/ToUnicode">>, <<RefStr(c.arg)>> >>

Type0Seeded == << << <<"/Type">>, <<"/Font">> >>, << <<"/Subtype">>, <<"/Type0">> >> >>

CallOps == [i \in 1..Len(calls) |-> calls[i].op]

IsType0Example ==
    /\ CallOps = <<"base_font", "encoding_predefined", "descendant_font">>
    /\ calls[1].arg = "Arial-Bold"
    /\ calls[2].arg = "Identity-H"
    /\ calls[3].arg = 5

C2_Type0FontEntriesInCallOrder ==
    (obj.kind = "Type0Font" /\ ~obj.open) =>
        /\ TopEntries(w.buf)
             = Type0Seeded \o [i \in 1..Len(calls) |-> Type0Entry(calls[i])]
        /\ IsType0Example =>
             w.buf = << "<<", "/Type", "/Font", "/Subtype", "/Type0",
                        "/BaseFont", "/Arial-Bold", "/Encoding", "/Identity-H",
                        "/DescendantFonts", "[", "5 0 R", "]", ">>" >>

C2_Witness ==
    /\ obj.kind = "Type0Font"
    /\ ~obj.open
    /\ IsType0Example
    /\ w.buf[Len(w.buf)] = ">>"

-----------------------------------------------------------------------------
(* C3: the width array holds the runs in call order, without merging or    *)
(* reordering: same(first, last, w) appends first, last, w; individual(    *)
(* start, ws) appends start and one nested array of ws; same(10, 12,       *)
(* 500.0) then individual(20, [1.0, 2.0]) gives [10 12 500 20 [1 2]].      *)

RunToks(c) ==
    CASE c.op = "same" ->
            <<IntStr(c.arg[1]), IntStr(c.arg[2]), FloatStr(c.arg[3])>>
      [] c.op = "individual" ->
            <<IntStr(c.arg[1]), "[">>
                \o [i \in 1..Len(c.arg[2]) |-> FloatStr(c.arg[2][i])]
                \o <<"]">>

IsRun(c) == c.op \in {"same", "individual"}

\* the calls made on the writer itself (not on a Widths writer it lent out)
TopCalls == { i \in 1..Len(calls) : ~IsRun(calls[i]) }

\* the same/individual calls made on the Widths writer started by call k
RunsOf(k) ==
    LET later == { i \in TopCalls : i > k }
        stop == IF later = {} THEN Len(calls) + 1 ELSE SetMin(later)
    IN  SubSeq(calls, k + 1, stop - 1)

\* the entries a writer holds right after start
Seeded ==
    CASE obj.kind = "Type1Font" ->
            << << <<"/Type">>, <<"/Font">> >>, << <<"/Subtype">>, <<"/Type1">> >> >>
      [] obj.kind = "Type0Font" ->
            << << <<"/Type">>, <<"/Font">> >>, << <<"/Subtype">>, <<"/Type0">> >> >>
      [] obj.kind = "CIDFont" ->
            << << <<"/Type">>, <<"/Font">> >>,
               << <<"/Subtype">>,
                  << IF obj.subtype = "Type0" THEN "/CIDFontType0"
                     ELSE "/CIDFontType2" >> >> >>
      [] obj.kind = "FontDescriptor" ->
            << << <<"/Type">>, <<"/FontDescriptor">> >> >>

\* the entry of the outermost dict that call k wrote
EntryIndex(k) == Len(Seeded) + Cardinality({ i \in TopCalls : i < k }) + 1

EntryOf(k) == TopEntries(w.buf)[EntryIndex(k)]

WidthsStillOpen(k) == widths_open /\ \A i \in TopCalls : i <= k

ExpectedWidths(k) ==
    <<"[">>
        \o Flatten([i \in 1..Len(RunsOf(k)) |-> RunToks(RunsOf(k)[i])])
        \o (IF WidthsStillOpen(k) THEN <<>> ELSE <<"]">>)

IsWidthsExample(k) ==
    /\ Len(RunsOf(k)) = 2
    /\ RunsOf(k)[1].op = "same"
    /\ RunsOf(k)[1].arg = <<10, 12, 500000>>
    /\ RunsOf(k)[2].op = "individual"
    /\ RunsOf(k)[2].arg = <<20, <<1000, 2000>>>>
    /\ ~WidthsStillOpen(k)

C3_WidthsRunsInCallOrder ==
    obj.kind = "CIDFont" =>
        \A k \in 1..Len(calls) :
            calls[k].op = "widths" =>
                /\ EntryOf(k) = << <<"/W">>, ExpectedWidths(k) >>
                /\ IsWidthsExample(k) =>
                     EntryOf(k)[2]
                       = <<"[", "10", "12", "500", "20", "[", "1", "2", "]", "]">>

C3_Witness ==
    /\ obj.kind = "CIDFont"
    /\ Len(calls) = 3
    /\ calls[1].op = "widths"
    /\ IsWidthsExample(1)
    /\ EntryOf(1)[2] = <<"[", "10", "12", "500", "20", "[", "1", "2", "]", "]">>

-----------------------------------------------------------------------------
(* Reading a byte buffer back: lines, decimal and hexadecimal numbers      *)

CharAt(s, i) == SubSeq(s, i, i)

NewlinePositions(s) == { i \in 1..Len(s) : CharAt(s, i) = "\n" }

\* the text between the newlines (the last line need not end with one)
Lines(s) ==
    LET nl == Sorted(NewlinePositions(s))
        n == Len(nl)
        first(k) == IF k = 1 THEN 1 ELSE nl[k - 1] + 1
        last(k) == IF k = n + 1 THEN Len(s) ELSE nl[k] - 1
    IN  [k \in 1..(n + 1) |-> SubSeq(s, first(k), last(k))]

EndsWith(s, suffix) ==
    /\ Len(s) >= Len(suffix)
    /\ SubSeq(s, Len(s) - Len(suffix) + 1, Len(s)) = suffix

IsDecDigit(c) == \E d \in 1..10 : CharAt("0123456789", d) = c
DecDigitVal(c) == (CHOOSE d \in 1..10 : CharAt("0123456789", d) = c) - 1
IsDec(s) == Len(s) > 0 /\ \A i \in 1..Len(s) : IsDecDigit(CharAt(s, i))

RECURSIVE DecVal(_)
DecVal(s) ==
    IF Len(s) = 0 THEN 0
    ELSE 10 * DecVal(SubSeq(s, 1, Len(s) - 1)) + DecDigitVal(CharAt(s, Len(s)))

IsHexDigit(c) ==
    \E d \in 1..16 :
        CharAt("0123456789ABCDEF", d) = c \/ CharAt("0123456789abcdef", d) = c
HexDigitVal(c) ==
    (CHOOSE d \in 1..16 :
        CharAt("0123456789ABCDEF", d) = c \/ CharAt("0123456789abcdef", d) = c) - 1
IsHex(s) == \A i \in 1..Len(s) : IsHexDigit(CharAt(s, i))

RECURSIVE HexVal(_)
HexVal(s) ==
    IF Len(s) = 0 THEN 0
    ELSE 16 * HexVal(SubSeq(s, 1, Len(s) - 1)) + HexDigitVal(CharAt(s, Len(s)))

\* the arguments of the latest write_cmap call
CMapCall == calls[1].arg

PayloadLines == Lines(w.payload)

BeginLines ==
    LET ls == PayloadLines
    IN  { k \in 1..Len(ls) : EndsWith(ls[k], " beginbfchar") }
EndLines ==
    LET ls == PayloadLines
    IN  { k \in 1..Len(ls) : ls[k] = "endbfchar" }

-----------------------------------------------------------------------------
(* C4: for a mapping of length N whose iterator yields exactly N pairs,    *)
(* the payload has exactly N lines between the beginbfchar line and the    *)
(* endbfchar line, one per pair in iteration order, and the count token    *)
(* written before beginbfchar equals N.                                    *)

ExactSize == CMapCall.mapping.len = Len(CMapCall.mapping.items)

C4_BfcharLinesAndCount ==
    (obj.kind = "CMap" /\ ExactSize) =>
        LET ls == PayloadLines
            n == Len(CMapCall.mapping.items)
        IN  /\ Cardinality(BeginLines) = 1
            /\ Cardinality(EndLines) = 1
            /\ LET b == SetMin(BeginLines)
                   e == SetMin(EndLines)
                   token == SubSeq(ls[b], 1, Len(ls[b]) - Len(" beginbfchar"))
               IN  /\ e - b - 1 = n
                   /\ IsDec(token)
                   /\ DecVal(token) = n
                   /\ \A i \in 1..n :
                        /\ Len(ls[b + i]) >= 6
                        /\ CharAt(ls[b + i], 1) = "<"
                        /\ IsHex(SubSeq(ls[b + i], 2, 5))
                        /\ CharAt(ls[b + i], 6) = ">"
                        /\ HexVal(SubSeq(ls[b + i], 2, 5))
                             = CMapCall.mapping.items[i][1]

C4_Witness ==
    /\ obj.kind = "CMap"
    /\ ExactSize
    /\ Len(CMapCall.mapping.items) = 2
    /\ SetMin(EndLines) - SetMin(BeginLines) = 3
    /\ PayloadLines[SetMin(BeginLines)] = "2 beginbfchar"

-----------------------------------------------------------------------------
(* C5: each bfchar line pairs the 4-hex-digit code with the UTF-16         *)
(* encoding of the mapped scalar: two 4-hex-digit code units (high then    *)
(* low surrogate) at or above U+10000, exactly one below.                  *)

\* the scalar that the hex digits between "> <" and ">" encode
Utf16Scalar(hex) ==
    IF Len(hex) = 4 THEN HexVal(hex)
    ELSE 65536 + (HexVal(SubSeq(hex, 1, 4)) - 55296) * 1024
               + (HexVal(SubSeq(hex, 5, 8)) - 56320)

BfcharLineOk(line, cid, c) ==
    LET units == IF c >= 65536 THEN 2 ELSE 1
        hex == SubSeq(line, 9, 8 + 4 * units)
    IN  /\ Len(line) = 9 + 4 * units
        /\ SubSeq(line, 1, 1) = "<"
        /\ IsHex(SubSeq(line, 2, 5))
        /\ HexVal(SubSeq(line, 2, 5)) = cid
        /\ SubSeq(line, 6, 8) = "> <"
        /\ IsHex(hex)
        /\ CharAt(line, Len(line)) = ">"
        /\ Utf16Scalar(hex) = c
        /\ units = 2 =>
             /\ HexVal(SubSeq(hex, 1, 4)) \in 55296..56319
             /\ HexVal(SubSeq(hex, 5, 8)) \in 56320..57343

C5_Utf16CodeUnits ==
    obj.kind = "CMap" =>
        LET items == CMapCall.mapping.items
            b == SetMin(BeginLines)
            ls == PayloadLines
        IN  \A i \in 1..Len(items) :
                BfcharLineOk(ls[b + i], items[i][1], items[i][2])

C5_Witness ==
    /\ obj.kind = "CMap"
    /\ CMapCall.mapping.items = << <<258, 128512>>, <<65, 65535>> >>
    /\ PayloadLines[SetMin(BeginLines) + 1] = "<0102> <D83DDE00>"
    /\ PayloadLines[SetMin(BeginLines) + 2] = "<0041> <FFFF>"

-----------------------------------------------------------------------------
(* C7: one call of write_cmap registers exactly one stream object, under   *)
(* the given reference, and its metadata dict holds exactly three keys in  *)
(* order: Type = CMap, CMapName = the name argument, CIDSystemInfo = a     *)
(* nested dict with Registry, Ordering, Supplement of the SystemInfo       *)
(* argument.                                                               *)

CMapMetadata(name, info) ==
    << << <<"/Type">>, <<"/CMap">> >>,
       << <<"/CMapName">>, <<"/" \o name>> >>,
       << <<"/CIDSystemInfo">>,
          << "<<", "/Registry", "(" \o info.registry \o ")",
             "/Ordering", "(" \o info.ordering \o ")",
             "/Supplement", IntStr(info.supplement), ">>" >> >> >>

\* the references registered so far: one per call, each its own
RegisteredOncePerCall ==
    /\ Len(w.registered) = nextRef - 1
    /\ \A i \in 1..Len(w.registered) : w.registered[i] = i
    /\ w.registered[Len(w.registered)] = obj.id

C7_CMapRegisteredOnceWithMetadata ==
    obj.kind = "CMap" =>
        /\ RegisteredOncePerCall
        /\ w.stack = <<>>
        /\ w.payload = cmap_payload(CMapCall.name, CMapCall.info, CMapCall.mapping)
        /\ w.buf[1] = "<<"
        /\ w.buf[Len(w.buf)] = ">>"
        /\ Len(TopEntries(w.buf)) = 3
        /\ TopEntries(w.buf) = CMapMetadata(CMapCall.name, CMapCall.info)

C7_Witness ==
    /\ obj.kind = "CMap"
    /\ obj.id = 2
    /\ w.registered = <<1, 2>>
    /\ w.buf = << "<<", "/Type", "/CMap", "/CMapName", "/Custom",
                  "/CIDSystemInfo", "<<", "/Registry", "(Adobe)",
                  "/Ordering", "(Identity)", "/Supplement", "0", ">>", ">>" >>

-----------------------------------------------------------------------------
(* C6: whatever is called on a font object writer (and on a Widths writer  *)
(* it lends out), once the writer is dropped the output has as many        *)
(* opening delimiters (<< and [) as closing ones (>> and ]), properly      *)
(* nested: each nested dict or array is closed before its parent.          *)

FontKinds == {"Type1Font", "Type0Font", "CIDFont", "FontDescriptor"}

CloserOf(t) == IF t = "<<" THEN ">>" ELSE "]"

\* the opening delimiter that the closing delimiter at j closes
OpenerFor(toks, depths, j) ==
    { i \in 1..(j - 1) :
        /\ toks[i] \in Openers
        /\ depths[i] = depths[j] - 1
        /\ \A m \in (i + 1)..(j - 1) : depths[m] > depths[i] }

Balanced(toks) ==
    LET depths == Depths(toks)
    IN  /\ CountIn(toks, Openers, Len(toks)) = CountIn(toks, Closers, Len(toks))
        /\ \A j \in 1..Len(toks) :
            /\ depths[j + 1] >= 0
            /\ toks[j] \in Closers =>
                 /\ Cardinality(OpenerFor(toks, depths, j)) = 1
                 /\ \A i \in OpenerFor(toks, depths, j) : toks[j] = CloserOf(toks[i])

C6_DelimitersBalancedAndNested ==
    (obj.kind \in FontKinds /\ ~obj.open) =>
        /\ Balanced(w.buf)
        /\ w.buf[1] = "<<"
        /\ DepthBefore(w.buf, Len(w.buf)) = 1

C6_Witness ==
    /\ obj.kind = "CIDFont"
    /\ ~obj.open
    /\ CallOps = <<"system_info", "widths", "individual">>
    /\ CountIn(w.buf, Openers, Len(w.buf)) = 4
    /\ CountIn(w.buf, Closers, Len(w.buf)) = 4

-----------------------------------------------------------------------------
(* C8 as stated: right after start, before any setter, every font object   *)
(* writer (Type1Font, Type0Font, CIDFont, FontDescriptor) holds its fixed  *)
(* Type entry and its fixed Subtype entry and nothing else.                *)

JustStarted == obj.kind \in FontKinds /\ obj.open /\ calls = <<>>

C8_EveryWriterSeedsTypeAndSubtype ==
    JustStarted =>
        /\ Len(TopEntries(w.buf)) = 2
        /\ TopEntries(w.buf)[1][1] = <<"/Type">>
        /\ TopEntries(w.buf)[2][1] = <<"/Subtype">>

(* C8, amended: right after start Type1Font, Type0Font and CIDFont hold    *)
(* /Type /Font and their /Subtype (Type1, Type0, and CIDFontType0 or       *)
(* CIDFontType2 for CIDFontType Type0 or Type2) and nothing else;          *)
(* FontDescriptor holds /Type /FontDescriptor alone, without a Subtype.    *)
(* These stay the first entries of the dict afterwards.                    *)

C8_SeededEntries ==
    obj.kind \in FontKinds =>
        /\ LET first == <<"<<">> \o Flatten(Flatten(Seeded))
           IN  /\ Len(w.buf) >= Len(first)
               /\ SubSeq(w.buf, 1, Len(first)) = first
               /\ Len(w.buf) > Len(first) =>
                    (w.buf[Len(first) + 1] = ">>"
                        \/ SubSeq(w.buf[Len(first) + 1], 1, 1) = "/")
        /\ JustStarted => w.buf = <<"<<">> \o Flatten(Flatten(Seeded))

C8_Witness ==
    /\ JustStarted
    /\ obj.kind = "FontDescriptor"
    /\ w.buf = <<"<<", "/Type", "/FontDescriptor">>

-----------------------------------------------------------------------------
(* C9: every setter call on a font object writer adds exactly one key to   *)
(* the wrapped dict: its number of entries is the seeded count plus the    *)
(* number of setter calls; for descendant_font, system_info and widths the *)
(* value is a nested array or dict whose entries are not keys of the       *)
(* wrapped dict.                                                           *)

SetterKey(op) ==
    CASE op = "base_font" -> "/BaseFont"
      [] op = "encoding_predefined" -> "/Encoding"
      [] op = "encoding_cmap" -> "/Encoding"
      [] op = "descendant_font" -> "/DescendantFonts"
      [] op = "to_unicode" -> "/ToUnicode"
      [] op = "system_info" -> "/CIDSystemInfo"
      [] op = "font_descriptor" -> "/FontDescriptor"
      [] op = "widths" -> "/W"
      [] op = "font_name" -> "/FontName"
      [] op = "font_flags" -> "/Flags"
      [] op = "font_bbox" -> "/FontBBox"
      [] op = "italic_angle" -> "/ItalicAngle"
      [] op = "ascent" -> "/Ascent"
      [] op = "descent" -> "/Descent"
      [] op = "cap_height" -> "/CapHeight"
      [] op = "stem_v" -> "/StemV"
      [] op = "font_file2" -> "/FontFile2"

NestedValue(op) ==
    CASE op \in {"descendant_font", "widths"} -> "["
      [] op = "system_info" -> "<<"
      [] OTHER -> ""

C9_OneKeyPerSetterCall ==
    obj.kind \in FontKinds =>
        LET items == TopItems(w.buf)
            entries == PairUp(items)
        IN  /\ Len(items) = 2 * (Len(Seeded) + Cardinality(TopCalls))
            /\ Len(entries) = Len(Seeded) + Cardinality(TopCalls)
            /\ \A k \in TopCalls :
                /\ entries[EntryIndex(k)][1] = <<SetterKey(calls[k].op)>>
                /\ NestedValue(calls[k].op) # "" =>
                     entries[EntryIndex(k)][2][1] = NestedValue(calls[k].op)

C9_Witness ==
    /\ obj.kind = "CIDFont"
    /\ CallOps = <<"system_info", "widths", "same">>
    /\ Len(TopEntries(w.buf)) = 4
    /\ Len(w.buf) > 2 * 4

-----------------------------------------------------------------------------
(* C10 as stated: FontFlags, the set a FontDescriptor's font_flags takes,  *)
(* is a bit-set over exactly ten named flags, each a distinct single bit   *)
(* of the integer.                                                         *)

FlagNames == DOMAIN FontFlags

SingleDistinctBits ==
    /\ \A f \in FlagNames : Cardinality(FontFlags[f]) = 1 /\ FontFlags[f] \subseteq 0..31
    /\ Cardinality(UNION { FontFlags[f] : f \in FlagNames }) = Cardinality(FlagNames)

C10_TenSingleBitFlags ==
    obj.kind = "FontDescriptor" =>
        /\ Cardinality(FlagNames) = 10
        /\ SingleDistinctBits

(* C10, amended: FontFlags is a bit-set over exactly nine named flags      *)
(* (FIXED_PITCH, SERIF, SYMBOLIC, SCRIPT, NON_SYMBOLIC, ITALIC, ALL_CAP,   *)
(* SMALL_CAP, FORCE_BOLD), each a distinct single bit of the integer, so   *)
(* the integer written for a set of flags has as many one bits as the set  *)
(* has flags.                                                              *)

RECURSIVE PopCount(_)
PopCount(n) == IF n = 0 THEN 0 ELSE (n % 2) + PopCount(n \div 2)

C10_NineSingleBitFlags ==
    /\ FlagNames = { "FIXED_PITCH", "SERIF", "SYMBOLIC", "SCRIPT", "NON_SYMBOLIC",
                     "ITALIC", "ALL_CAP", "SMALL_CAP", "FORCE_BOLD" }
    /\ Cardinality(FlagNames) = 9
    /\ SingleDistinctBits
    /\ obj.kind = "FontDescriptor" =>
         \A k \in 1..Len(calls) :
            calls[k].op = "font_flags" =>
                LET written == EntryOf(k)[2][1]
                IN  /\ IsDec(written)
                    /\ PopCount(DecVal(written)) = Cardinality(calls[k].arg)

C10_Witness ==
    /\ obj.kind = "FontDescriptor"
    /\ Len(calls) = 1
    /\ calls[1].op = "font_flags"
    /\ calls[1].arg = {"ITALIC", "ALL_CAP", "FORCE_BOLD"}
    /\ EntryOf(1) = << <<"/Flags">>, <<"327744">> >>

-----------------------------------------------------------------------------
(* C11: font_flags(flags) writes a single /Flags entry whose integer is    *)
(* the bitwise OR of the bit values of exactly the flags in the set (0     *)
(* for the empty set), for every subset of the defined flags, those with   *)
(* both SYMBOLIC and NON_SYMBOLIC included.                                *)

\* bit b of the non-negative integer n
BitSet(n, b) == (n \div (2 ^ b)) % 2 = 1

FlagsCalls == { k \in 1..Len(calls) : calls[k].op = "font_flags" }

C11_FlagsEntryIsOrOfBits ==
    obj.kind = "FontDescriptor" =>
        LET entries == TopEntries(w.buf)
        IN  /\ Cardinality({ i \in 1..Len(entries) : entries[i][1] = <<"/Flags">> })
                 = Cardinality(FlagsCalls)
            /\ \A k \in FlagsCalls :
                LET e == entries[EntryIndex(k)]
                    flags == calls[k].arg
                IN  /\ e[1] = <<"/Flags">>
                    /\ Len(e[2]) = 1
                    /\ IsDec(e[2][1])
                    /\ flags = {} => e[2][1] = "0"
                    /\ \A b \in 0..30 :
                         BitSet(DecVal(e[2][1]), b)
                            <=> \E f \in flags : FontFlags[f] = {b}

C11_Witness ==
    /\ obj.kind = "FontDescriptor"
    /\ Len(calls) = 1
    /\ calls[1].op = "font_flags"
    /\ calls[1].arg = {"SYMBOLIC", "NON_SYMBOLIC", "FIXED_PITCH"}
    /\ EntryOf(1) = << <<"/Flags">>, <<"37">> >>

-----------------------------------------------------------------------------
(* C18: for every subset of the defined flags, `flags.bits() as i32` is    *)
(* lossless and non-negative: the top bit is never set, so the integer     *)
(* written as /Flags is unsigned and equals the u32 value.                 *)

C18_BitsAsI32Lossless ==
    obj.kind = "FontDescriptor" =>
        /\ 31 \notin FontFlags_bits(DOMAIN FontFlags)
        /\ \A k \in FlagsCalls :
            LET written == EntryOf(k)[2][1]
                u == FontFlags_bits(calls[k].arg)
            IN  /\ 31 \notin u
                /\ AsI32(u) >= 0
                /\ IsDec(written)
                /\ DecVal(written) = SumPow2(u)

C18_Witness ==
    /\ obj.kind = "FontDescriptor"
    /\ Len(calls) = 1
    /\ calls[1].op = "font_flags"
    /\ calls[1].arg = DOMAIN FontFlags
    /\ EntryOf(1) = << <<"/Flags">>, <<"458863">> >>

-----------------------------------------------------------------------------
(* C12: for every mapping length the payload of write_cmap closes every    *)
(* scope it opens, properly nested and each once: three `begin` dict       *)
(* scopes by three `end`, begincmap by endcmap, begincodespacerange by     *)
(* endcodespacerange, beginbfchar by endbfchar, %%BeginResource by         *)
(* %%EndResource; it ends with %%EOF, and the one codespace range          *)
(* <0000> <ffff> comes before the bfchar block.                            *)

StartsWith(s, prefix) ==
    /\ Len(s) >= Len(prefix)
    /\ SubSeq(s, 1, Len(prefix)) = prefix

\* the scope a line opens, or "" if it opens none
Opens(line) ==
    CASE StartsWith(line, "%%BeginResource:") -> "resource"
      [] EndsWith(line, " begin") -> "dict"
      [] line = "begincmap" -> "cmap"
      [] EndsWith(line, " begincodespacerange") -> "codespacerange"
      [] EndsWith(line, " beginbfchar") -> "bfchar"
      [] OTHER -> ""

\* the scope a line closes, or "" if it closes none
Closes(line) ==
    CASE line = "%%EndResource" -> "resource"
      [] line = "end" \/ StartsWith(line, "end ") -> "dict"
      [] line = "endcmap" -> "cmap"
      [] line = "endcodespacerange" -> "codespacerange"
      [] line = "endbfchar" -> "bfchar"
      [] OTHER -> ""

ScopeKinds == {"resource", "dict", "cmap", "codespacerange", "bfchar"}

\* the scopes in the order the lines from k on open (+) and close (-) them
RECURSIVE ScopeEventsFrom(_, _)
ScopeEventsFrom(ls, k) ==
    IF k > Len(ls) THEN <<>>
    ELSE (IF Opens(ls[k]) # "" THEN << [open |-> TRUE, kind |-> Opens(ls[k])] >>
          ELSE IF Closes(ls[k]) # ""
               THEN << [open |-> FALSE, kind |-> Closes(ls[k])] >>
               ELSE <<>>)
         \o ScopeEventsFrom(ls, k + 1)

\* the number of scopes open just before event k
ScopeDepth(ev, k) ==
    Cardinality({ i \in 1..(k - 1) : ev[i].open })
        - Cardinality({ i \in 1..(k - 1) : ~ev[i].open })

\* the event that opened the scope which event j closes
ScopeOpener(ev, j) ==
    { i \in 1..(j - 1) :
        /\ ev[i].open
        /\ ScopeDepth(ev, i) = ScopeDepth(ev, j) - 1
        /\ \A m \in (i + 1)..(j - 1) : ScopeDepth(ev, m) > ScopeDepth(ev, i) }

ScopesNested(ls) ==
    LET ev == ScopeEventsFrom(ls, 1)
    IN  /\ \A kind \in ScopeKinds :
            LET opened == Cardinality({ i \in 1..Len(ev) : ev[i].open /\ ev[i].kind = kind })
                closed == Cardinality({ i \in 1..Len(ev) : ~ev[i].open /\ ev[i].kind = kind })
            IN  /\ opened = (IF kind = "dict" THEN 3 ELSE 1)
                /\ closed = opened
        /\ ScopeDepth(ev, Len(ev) + 1) = 0
        /\ \A j \in 1..Len(ev) :
            ~ev[j].open =>
                /\ Cardinality(ScopeOpener(ev, j)) = 1
                /\ \A i \in ScopeOpener(ev, j) : ev[i].kind = ev[j].kind

C12_CMapScopesClosed ==
    obj.kind = "CMap" =>
        LET ls == PayloadLines
            cs == { k \in 1..Len(ls) : EndsWith(ls[k], " begincodespacerange") }
        IN  /\ ScopesNested(ls)
            /\ ls[Len(ls)] = "%%EOF"
            /\ EndsWith(w.payload, "%%EOF")
            /\ Cardinality(cs) = 1
            /\ \A k \in cs :
                /\ ls[k] = "1 begincodespacerange"
                /\ ls[k + 1] = "<0000> <ffff>"
                /\ ls[k + 2] = "endcodespacerange"
                /\ \A b \in BeginLines : k + 2 < b

ScopeEvents(ls) ==
    LET ev == ScopeEventsFrom(ls, 1)
    IN  [k \in 1..Len(ev) |-> (IF ev[k].open THEN "+" ELSE "-") \o ev[k].kind]

C12_Witness ==
    /\ obj.kind = "CMap"
    /\ CMapCall.mapping = [len |-> 0, items |-> <<>>]
    /\ ScopeEvents(PayloadLines) =
         << "+resource", "+dict", "+dict", "+cmap", "+dict", "-dict",
            "+codespacerange", "-codespacerange", "+bfchar", "-bfchar",
            "-cmap", "-dict", "-dict", "-resource" >>

-----------------------------------------------------------------------------
(* C14: when the declared length of the mapping differs from the number    *)
(* of pairs it yields, write_cmap still completes and registers the        *)
(* stream: the count token before beginbfchar is the declared length, and  *)
(* the number of lines between beginbfchar and endbfchar is the number of  *)
(* pairs yielded.                                                          *)

C14_DeclaredLengthTrusted ==
    (obj.kind = "CMap" /\ ~ExactSize) =>
        LET ls == PayloadLines
            mapping == CMapCall.mapping
        IN  /\ w.stack = <<>>
            /\ Len(w.registered) > 0
            /\ w.registered[Len(w.registered)] = obj.id
            /\ Cardinality(BeginLines) = 1
            /\ Cardinality(EndLines) = 1
            /\ LET b == SetMin(BeginLines)
                   e == SetMin(EndLines)
                   token == SubSeq(ls[b], 1, Len(ls[b]) - Len(" beginbfchar"))
               IN  /\ IsDec(token)
                   /\ DecVal(token) = mapping.len
                   /\ e - b - 1 = Len(mapping.items)
                   /\ e - b - 1 # DecVal(token)
                   /\ \A i \in 1..Len(mapping.items) :
                        BfcharLineOk(ls[b + i], mapping.items[i][1],
                                     mapping.items[i][2])

C14_Witness ==
    /\ obj.kind = "CMap"
    /\ CMapCall.mapping = [len |-> 2, items |-> << <<65, 65535>> >>]
    /\ PayloadLines[SetMin(BeginLines)] = "2 beginbfchar"
    /\ PayloadLines[SetMin(BeginLines) + 1] = "<0041> <FFFF>"
    /\ PayloadLines[SetMin(BeginLines) + 2] = "endbfchar"
    /\ w.registered[Len(w.registered)] = obj.id

-----------------------------------------------------------------------------
(* C13: while a Widths writer obtained from CIDFont::widths() is open no   *)
(* key can be written into the owning CIDFont dict: everything written     *)
(* through the Widths writer lies between the opening bracket after /W     *)
(* and its closing bracket, and that bracket is written before any later   *)
(* key of the dict and before the dict's closing delimiter.                *)

SetMax(S) == CHOOSE x \in S : \A y \in S : y <= x

\* the call on the CIDFont itself that precedes call i
OwnerCall(i) == SetMax({ j \in TopCalls : j < i })

C13_WidthsBorrowsCIDFont ==
    obj.kind = "CIDFont" =>
        /\ widths_open =>
             /\ obj.open
             /\ TopCalls # {}
             /\ calls[SetMax(TopCalls)].op = "widths"
             /\ Len(w.stack) = 2
             /\ Top(w).kind = "array"
        /\ \A i \in 1..Len(calls) :
             IsRun(calls[i]) =>
                /\ { j \in TopCalls : j < i } # {}
                /\ calls[OwnerCall(i)].op = "widths"
        /\ LET entries == TopEntries(w.buf)
           IN  \A k \in 1..Len(calls) :
                 calls[k].op = "widths" =>
                    LET v == entries[EntryIndex(k)][2]
                        closed == ~obj.open \/ \E j \in TopCalls : j > k
                        inner == SubSeq(v, 2, IF WidthsStillOpen(k) THEN Len(v)
                                              ELSE Len(v) - 1)
                    IN  /\ entries[EntryIndex(k)][1] = <<"/W">>
                        /\ v[1] = "["
                        /\ closed => ~WidthsStillOpen(k)
                        /\ ~WidthsStillOpen(k) => (v[Len(v)] = "]" /\ Balanced(v))
                        /\ inner = Flatten([i \in 1..Len(RunsOf(k)) |->
                                               RunToks(RunsOf(k)[i])])
                        /\ \A t \in 1..Len(inner) : SubSeq(inner[t], 1, 1) # "/"

C13_Witness ==
    /\ obj.kind = "CIDFont"
    /\ obj.subtype = "Type2"
    /\ CallOps = <<"widths", "same", "base_font">>
    /\ w.buf = << "<<", "/Type", "/Font", "/Subtype", "/CIDFontType2",
                  "/W", "[", "10", "12", "500", "]", "/BaseFont", "/Helvetica" >>

-----------------------------------------------------------------------------
(* C15: writing the same key twice into one font dict (the same setter     *)
(* twice, widths() twice, or encoding_predefined and encoding_cmap, which  *)
(* both write /Encoding) is not deduplicated and does not overwrite: both  *)
(* entries are in the dict, each with its own value, in call order.        *)

\* the value tokens that call k is to leave in the dict
ExpectedValue(k) ==
    LET op == calls[k].op
        arg == calls[k].arg
    IN  CASE op \in {"base_font", "encoding_predefined", "font_name"} ->
                <<NameStr(arg)>>
          [] op \in {"encoding_cmap", "to_unicode", "font_descriptor", "font_file2"} ->
                <<RefStr(arg)>>
          [] op = "descendant_font" -> <<"[", RefStr(arg), "]">>
          [] op = "system_info" ->
                << "<<", "/Registry", StrStr(arg.registry),
                   "/Ordering", StrStr(arg.ordering),
                   "/Supplement", IntStr(arg.supplement), ">>" >>
          [] op = "widths" -> ExpectedWidths(k)
          [] op = "font_flags" -> <<IntStr(SumPow2(FontFlags_bits(arg)))>>
          [] op = "font_bbox" ->
                << "[", FloatStr(arg[1]), FloatStr(arg[2]),
                   FloatStr(arg[3]), FloatStr(arg[4]), "]" >>
          [] op \in {"italic_angle", "ascent", "descent", "cap_height", "stem_v"} ->
                <<FloatStr(arg)>>

\* the keys that more than one call has written
RepeatedKeys ==
    { SetterKey(calls[k].op) : k \in
        { k \in TopCalls :
            \E j \in TopCalls : j # k /\ SetterKey(calls[j].op) = SetterKey(calls[k].op) } }

C15_DuplicateKeysKept ==
    obj.kind \in FontKinds =>
        LET entries == TopEntries(w.buf)
        IN  /\ \A key \in RepeatedKeys :
                Cardinality({ i \in 1..Len(entries) : entries[i][1] = <<key>> })
                    = Cardinality({ k \in TopCalls : SetterKey(calls[k].op) = key })
            /\ \A j, k \in TopCalls :
                (j < k /\ SetterKey(calls[j].op) = SetterKey(calls[k].op)) =>
                    /\ EntryIndex(j) < EntryIndex(k)
                    /\ EntryIndex(k) <= Len(entries)
                    /\ entries[EntryIndex(j)]
                         = << <<SetterKey(calls[j].op)>>, ExpectedValue(j) >>
                    /\ entries[EntryIndex(k)]
                         = << <<SetterKey(calls[k].op)>>, ExpectedValue(k) >>

C15_Witness ==
    /\ obj.kind = "Type0Font"
    /\ ~obj.open
    /\ CallOps = <<"encoding_predefined", "encoding_cmap">>
    /\ w.buf = << "<<", "/Type", "/Font", "/Subtype", "/Type0",
                  "/Encoding", "/Identity-H", "/Encoding", "7 0 R", ">>" >>

-----------------------------------------------------------------------------
(* C16: tj(text) appends '<', then exactly two hex digits per input byte   *)
(* in input order with nothing between the bytes (2 * len(text) digits),   *)
(* then "> Tj\n"; for empty text it appends "<> Tj\n"; each pair of        *)
(* digits is the value of its byte.                                        *)

TjStep ==
    /\ Len(ts_calls') = Len(ts_calls) + 1
    /\ ts_calls'[Len(ts_calls')].op = "tj"

TjAppended ==
    LET text == ts_calls'[Len(ts_calls')].text
        n == Len(text)
        added == SubSeq(ts_buf', Len(ts_buf) + 1, Len(ts_buf'))
        digits == SubSeq(added, 2, 1 + 2 * n)
    IN  /\ SubSeq(ts_buf', 1, Len(ts_buf)) = ts_buf
        /\ Len(added) = 1 + 2 * n + Len("> Tj\n")
        /\ CharAt(added, 1) = "<"
        /\ IsHex(digits)
        /\ \A i \in 1..n : HexVal(SubSeq(digits, 2 * i - 1, 2 * i)) = text[i]
        /\ SubSeq(added, 2 + 2 * n, Len(added)) = "> Tj\n"
        /\ n = 0 => added = "<> Tj\n"

C16_TjHexDigits == [][TjStep => TjAppended]_tsVars

C16_Witness ==
    /\ Len(ts_calls) = 2
    /\ ts_calls[1].op = "tj"
    /\ ts_calls[1].text = <<0, 171>>
    /\ ts_calls[2].op = "tj"
    /\ ts_calls[2].text = <<>>
    /\ ~ts_ended
    /\ ts_buf = "BT\n<00AB> Tj\n<> Tj\n"

-----------------------------------------------------------------------------
(* C17: the TextStream buffer is append-only: each operator and end()      *)
(* leaves the bytes already written unchanged, so the buffer before the    *)
(* call is a strict prefix of the buffer after it; every reachable buffer  *)
(* starts with "BT\n", and "ET" is written only by end(), once, as the     *)
(* last bytes.                                                             *)

StrictPrefix(a, b) == Len(a) < Len(b) /\ SubSeq(b, 1, Len(a)) = a

AppendOnlyStep ==
    /\ StrictPrefix(ts_buf, ts_buf')
    /\ ~ts_ended
    /\ ts_ended' <=> ts_buf' = ts_buf \o "ET"
    /\ ts_ended' => ts_result' = ts_buf'

C17_BufferAppendOnly ==
    /\ [](/\ StartsWith(ts_buf, "BT\n")
          /\ ts_ended <=> EndsWith(ts_buf, "ET"))
    /\ [][AppendOnlyStep]_tsVars

C17_Witness ==
    /\ ts_ended
    /\ Len(ts_calls) = 3
    /\ ts_calls[1].op = "tf"
    /\ ts_calls[2].op = "td"
    /\ ts_calls[3].op = "tj"
    /\ StartsWith(ts_result, "BT\n/F")
    /\ EndsWith(ts_result, "> Tj\nET")

====
